---- MODULE Spec2Model ----
(***************************************************************************)
(* Mira Attendance: the client service layer (src/src/services.ts) and the *)
(* serverless handlers it talks to (src/api/*.ts and the alternative       *)
(* handler files of the same routes), as one state machine.                *)
(*                                                                         *)
(* Fixed-point units used for the geofence arithmetic:                     *)
(*   coordinates   1e-5 degree                                             *)
(*   angles        1e-8 radian                                             *)
(*   cosines       1e-4                                                    *)
(*   distances     millimetre (1e-6 km)                                    *)
(***************************************************************************)
EXTENDS Integers, Sequences, FiniteSets, TLC

VARIABLES
    usersApi,   \* which users handler file serves /api/users
    attApi,     \* which attendance handler file serves /api/attendance
    users,      \* the User collection, in insertion order
    att,        \* the Attendance collection, in insertion order
    attNext,    \* next Attendance _id
    cl,         \* per browser client: the attendance call it has in flight
    uNext,      \* next User _id
    ucl,        \* per client: the request to /api/users it has in flight
    loginRes,   \* what the latest login call settled with
    otpStore,   \* MockStorage, the LOGIN_OTP_<id> keys: the stored JSON text
    otpRes,     \* what the latest verifyLoginOtp call settled with
    otpLog,     \* history: per user the OTP last issued and whether it was presented since
    ai,         \* aiClientState: isInitialized, client
    face,       \* the verifyFace call in flight and what it settled with
    svc,        \* the latest settled service call: its request's response and its result
    storage,    \* MockStorage, the MOCK_APPLICATIONS and MOCK_FEEDBACK keys: Map and localStorage
    clock,      \* Date.now()
    job,        \* per caller: the application / feedback call it has in flight
    hist,       \* history: payloads handed out, entries written, status each should have
    video,      \* the generateVideo call in flight and what it settled with
    rd,         \* the latest settled read on behalf of a current user, and its result
    adm,        \* the updateUser / deleteUser call in flight and what it settled with
    dash,       \* the latest getDashboardStats call and what it settled with
    tod,        \* the latest getTodaysAttendanceForUser call and what it returned
    currentToolId,  \* chat page: the selected tool, "" for none
    chatHistory,    \* chat page: the messages shown
    calls,          \* chat page: the handleSubmit calls so far, in order
    now,            \* chat page: what Date.now() reads
    inputText,      \* chat page: the text in the input box
    file,           \* chat page: whether a file is attached
    fence           \* the latest location status computed for a distance

attVars == <<att, attNext, cl>>
userVars == <<users, uNext, ucl>>
loginVars == <<loginRes, otpStore, otpRes, otpLog>>
aiVars == <<ai, face, svc>>
cfgVars == <<usersApi, attApi>>
storeVars == <<storage, clock, job, hist>>
chatVars == <<currentToolId, chatHistory, calls, now, inputText, file>>

\* ------------------------------------------------------------------ bounds
MaxAtt == 2
Clients == {1, 2}

\* ------------------------------------------------------------ small helpers
Range(s) == {s[i] : i \in 1..Len(s)}
Truthy(s) == s # ""
Abs(x) == IF x < 0 THEN -x ELSE x
\* (a * b) \div c for a, b >= 0 without leaving 32 bits
MulDiv(a, b, c) == (a \div c) * b + ((a % c) * b) \div c

RECURSIVE SqrtIter(_, _, _)
SqrtIter(n, lo, hi) ==
    IF lo >= hi THEN lo
    ELSE LET mid == (lo + hi + 1) \div 2
         IN IF mid * mid <= n THEN SqrtIter(n, mid, hi) ELSE SqrtIter(n, lo, mid - 1)
\* Math.sqrt on a value scaled by s*s, result scaled by s
Sqrt(n) == SqrtIter(n, 0, 46340)

\* --------------------------------------------------------------- geofence
R == 6371
CAMPUS_LAT == 1845500
CAMPUS_LON == 7952170
CAMPUS_RADIUS_KM == 500000

\* x * (Math.PI / 180): 1e-5 degree -> 1e-8 radian
ToRad(x) == IF x < 0 THEN -MulDiv(-x, 17453, 1000) ELSE MulDiv(x, 17453, 1000)
\* Math.sin: x - x^3/6 (the next term is below the resolution for |x| < 0.0004 rad)
Sin(x) == x - MulDiv(MulDiv(Abs(x), Abs(x), 100000000), x, 600000000)
\* Math.cos of an angle in 1e-8 rad, result in 1e-4: 1 - x^2/2 + x^4/24 - x^6/720
Cos(x) ==
    LET x4 == Abs(x) \div 10000
        x2 == (x4 * x4) \div 10000
        x2x2 == (x2 * x2) \div 10000
    IN 10000 - x2 \div 2 + x2x2 \div 24 - ((x2x2 * x2) \div 10000) \div 720
\* Math.atan2(y, x) for 0 <= y << x, both in 1e-8: y/x, with 1/x expanded at x = 1
Atan2(y, x) == y + (y * (100000000 - x)) \div x

getDistanceInKm(lat1, lon1, lat2, lon2) ==
    LET dLat == ToRad(lat2 - lat1)
        dLon == ToRad(lon2 - lon1)
        sLat == Sin(dLat \div 2)
        sLon == Sin(dLon \div 2)
        a == sLat * sLat
             + MulDiv(sLon * sLon, (Cos(ToRad(lat1)) * Cos(ToRad(lat2))) \div 10000, 10000)
        \* Math.sqrt(1 - a) = 1 - a/2 to first order, a in 1e-16
        c == 2 * Atan2(Sqrt(a), 100000000 - a \div 200000000)
    IN (R * c) \div 100

\* Number.prototype.toFixed(4) of a positive coordinate: round to 1e-4 degree
ToFixed4(x) == (x + 5) \div 10

\* the positions a browser reports: latitude/longitude around the campus
Coords ==
    { <<CAMPUS_LAT + 449, CAMPUS_LON>>,        \* 499 m north
      <<CAMPUS_LAT + 451, CAMPUS_LON>>,        \* 501 m north
      <<CAMPUS_LAT - 1200, CAMPUS_LON + 900>> }\* 1.6 km away

DistTable == [c \in Coords |-> getDistanceInKm(c[1], c[2], CAMPUS_LAT, CAMPUS_LON)]

\* ------------------------------------------------------------- user store
Pins == {"P1", "P2"}
Passwords == {"pw1", "pw2"}
UsersApis == {"api_users", "part_002"}
AttApis == {"api_attendance", "part_003"}
\* a deployment serves each route from one of its handler files
Deployments == {<<"api_users", "api_attendance">>, <<"part_002", "part_003">>}

SUPER_ADMIN == "SUPER_ADMIN"
STUDENT == "STUDENT"

NewUser(id, pin, role, password, revoked) ==
    [id |-> id, pin |-> pin, name |-> "N" \o pin, role |-> role,
     password |-> password, access_revoked |-> revoked, college_code |-> "C1"]

\* the collections a deployment starts from
InitialUserStores ==
    { <<NewUser(1, "P1", SUPER_ADMIN, "pw1", FALSE), NewUser(2, "P2", STUDENT, "pw2", FALSE)>>,
      <<NewUser(1, "P1", SUPER_ADMIN, "pw1", FALSE), NewUser(2, "P2", STUDENT, "pw2", TRUE)>>,
      <<NewUser(1, "P1", STUDENT, "pw1", FALSE)>> }

UserIds == {1, 2}

\* GET /api/users without a pin: every document, formatted with its id
UsersGetAll == users

\* ------------------------------------------------------- attendance store
Dates == {"2026-01-01", "2026-01-02"}
DateList == <<"2026-01-01", "2026-01-02">>
NoLocation == [status |-> "", coordinates |-> <<>>, distance_km |-> <<>>]
NoBody == [date |-> "", userId |-> 0, userName |-> "", userPin |-> "",
           status |-> "", location |-> NoLocation]
Idle == [pc |-> "idle", op |-> "none", coords |-> <<>>, body |-> NoBody,
         status |-> 0, err |-> ""]

\* a lookup that never finds a record
FindsNothing(store, date, userPin) == {}

\* Attendance.findOne({date, userPin}) on the collection
AttFindOne(store, date, userPin) ==
    {i \in 1..Len(store) : store[i].date = date /\ store[i].userPin = userPin}

\* Attendance.create: the schema has no unique index, every valid document is added
AttCreate(store, id, body) ==
    Append(store, [id |-> id, date |-> body.date, userId |-> body.userId,
                   userName |-> body.userName, userPin |-> body.userPin,
                   status |-> body.status, location |-> body.location])

\* schema validation of a document: required strings, status enum
AttValid(body) ==
    /\ Truthy(body.date) /\ body.userId # 0 /\ Truthy(body.userName)
    /\ Truthy(body.userPin)
    /\ body.status \in {"Present", "Absent"}

\* ---------------------------------------------------------- markAttendance
\* the payload markAttendance builds for a found user
\* a geofence that leaves the circle itself outside
StrictlyInside(hasCoordinates, distanceInKm) ==
    IF hasCoordinates /\ distanceInKm < CAMPUS_RADIUS_KM THEN "On-Campus" ELSE "Off-Campus"

\* locationStatus for a position at distanceInKm from the campus, or for none
LocationStatus(hasCoordinates, distanceInKm) ==
    IF hasCoordinates /\ distanceInKm <= CAMPUS_RADIUS_KM THEN "On-Campus" ELSE "Off-Campus"

MarkLocationStatus(coords) ==
    LocationStatus(coords # <<>>, IF coords = <<>> THEN 0 ELSE DistTable[coords])

\* distances getDistanceInKm can return: on the campus, on the circle, next to it
FenceDistances == {0, CAMPUS_RADIUS_KM - 1, CAMPUS_RADIUS_KM, CAMPUS_RADIUS_KM + 1}
NoFence == [hasCoordinates |-> FALSE, distanceInKm |-> 0, status |-> ""]

\* the geofence lines of markAttendance for a position at a given distance
GeofenceCheck(hasCoordinates, distanceInKm) ==
    /\ fence' = [hasCoordinates |-> hasCoordinates,
                 distanceInKm |-> IF hasCoordinates THEN distanceInKm ELSE 0,
                 status |-> LocationStatus(hasCoordinates, distanceInKm)]
    /\ UNCHANGED <<attVars, userVars, cfgVars, loginVars, aiVars, storeVars, video, rd, adm,
                   dash, tod, chatVars>>

MarkPayload(user, coords, today) ==
    [date |-> today, userId |-> user.id, userName |-> user.name, userPin |-> user.pin,
     status |-> "Present",
     location |-> [status |-> MarkLocationStatus(coords),
                   coordinates |-> IF coords = <<>> THEN <<>>
                                   ELSE <<ToFixed4(coords[1]), ToFixed4(coords[2])>>,
                   distance_km |-> IF coords = <<>> THEN <<>> ELSE <<DistTable[coords]>>]]

Finish(c, op, coords, body, status, err) ==
    cl' = [cl EXCEPT ![c] = [pc |-> "done", op |-> op, coords |-> coords, body |-> NoBody,
                             status |-> status, err |-> err]]

\* markAttendance up to the point where its POST is on the wire
MarkAttendance(c, userId, coords, today, fetchOk) ==
    /\ cl[c].pc \in {"idle", "done"}
    /\ LET found == {i \in 1..Len(UsersGetAll) : UsersGetAll[i].id = userId}
       IN IF ~fetchOk
          THEN Finish(c, "mark", coords, NoBody, 0, "Internal server error")
          ELSE IF found = {}
          THEN Finish(c, "mark", coords, NoBody, 0, "User not found")
          ELSE LET user == UsersGetAll[CHOOSE i \in found : \A j \in found : i <= j]
               IN cl' = [cl EXCEPT ![c] =
                           [pc |-> "posted", op |-> "mark", coords |-> coords,
                            body |-> MarkPayload(user, coords, today),
                            status |-> 0, err |-> ""]]
    /\ UNCHANGED <<att, attNext, userVars, cfgVars, storeVars, video, rd, adm, dash, tod, chatVars, fence, loginVars, aiVars>>

\* any other caller of POST /api/attendance
RawBody(date, userPin) ==
    [date |-> date, userId |-> 1, userName |-> "N", userPin |-> userPin,
     status |-> "Present", location |-> NoLocation]
RawBodies == {RawBody(d, p) : d \in Dates, p \in Pins \cup {""}}

RawPost(c, body) ==
    /\ cl[c].pc \in {"idle", "done"}
    /\ cl' = [cl EXCEPT ![c] = [pc |-> "posted", op |-> "raw", coords |-> <<>>,
                                body |-> body, status |-> 0, err |-> ""]]
    /\ UNCHANGED <<att, attNext, userVars, cfgVars, storeVars, video, rd, adm, dash, tod, chatVars, fence, loginVars, aiVars>>

\* ------------------------------------------------- POST /api/attendance
\* api/attendance.ts: field check and duplicate lookup, up to the await before create
AttPostCheck(c) ==
    /\ attApi = "api_attendance"
    /\ cl[c].pc = "posted"
    /\ LET b == cl[c].body
       IN IF ~(Truthy(b.date) /\ b.userId # 0 /\ Truthy(b.userName)
               /\ Truthy(b.userPin) /\ Truthy(b.status))
          THEN Finish(c, cl[c].op, cl[c].coords, b, 400,
                      "date, userId, userName, userPin and status are required")
          ELSE IF AttFindOne(att, b.date, b.userPin) # {}
          THEN Finish(c, cl[c].op, cl[c].coords, b, 409,
                      "Attendance already marked for this user today")
          ELSE cl' = [cl EXCEPT ![c].pc = "creating"]
    /\ UNCHANGED <<att, attNext, userVars, cfgVars, storeVars, video, rd, adm, dash, tod, chatVars, fence, loginVars, aiVars>>

\* api/attendance.ts: Attendance.create after the lookup found nothing
AttPostCreate(c) ==
    /\ attApi = "api_attendance"
    /\ cl[c].pc = "creating"
    /\ LET b == cl[c].body
       IN IF ~AttValid(b)
          THEN /\ Finish(c, cl[c].op, cl[c].coords, b, 500, "Internal server error")
               /\ UNCHANGED <<att, attNext>>
          ELSE /\ attNext <= MaxAtt
               /\ att' = AttCreate(att, attNext, b)
               /\ attNext' = attNext + 1
               /\ Finish(c, cl[c].op, cl[c].coords, b, 201, "")
    /\ UNCHANGED <<userVars, cfgVars, storeVars, video, rd, adm, dash, tod, chatVars, fence, loginVars, aiVars>>

\* the other attendance handler: Attendance.create(req.body), nothing else
AttPostPlain(c) ==
    /\ attApi = "part_003"
    /\ cl[c].pc = "posted"
    /\ LET b == cl[c].body
           doc == [b EXCEPT !.status = IF b.status = "" THEN "Present" ELSE b.status]
       IN IF ~AttValid(doc)
          THEN /\ Finish(c, cl[c].op, cl[c].coords, b, 400, "validation failed")
               /\ UNCHANGED <<att, attNext>>
          ELSE /\ attNext <= MaxAtt
               /\ att' = AttCreate(att, attNext, doc)
               /\ attNext' = attNext + 1
               /\ Finish(c, cl[c].op, cl[c].coords, b, 201, "")
    /\ UNCHANGED <<userVars, cfgVars, storeVars, video, rd, adm, dash, tod, chatVars, fence, loginVars, aiVars>>

\* ------------------------------------------ PUT / DELETE /api/attendance
PutBodies == {[userPin |-> p] : p \in Pins} \cup {[date |-> d] : d \in Dates}

\* findByIdAndUpdate(id, req.body): the fields of the body overwrite the document's
AttUpdate(doc, body) ==
    [f \in DOMAIN doc |-> IF f \in DOMAIN body THEN body[f] ELSE doc[f]]

AttPut(c, id, body) ==
    /\ cl[c].pc \in {"idle", "done"}
    /\ IF attApi = "part_003"
       THEN /\ Finish(c, "put", <<>>, NoBody, 405, "Method not allowed")
            /\ att' = att
       ELSE LET hit == {i \in 1..Len(att) : att[i].id = id}
            IN IF hit = {}
               THEN /\ Finish(c, "put", <<>>, NoBody, 404, "Attendance not found")
                    /\ att' = att
               ELSE /\ att' = [i \in 1..Len(att) |->
                                 IF i \in hit THEN AttUpdate(att[i], body) ELSE att[i]]
                    /\ Finish(c, "put", <<>>, NoBody, 200, "")
    /\ UNCHANGED <<attNext, userVars, cfgVars, storeVars, video, rd, adm, dash, tod, chatVars, fence, loginVars, aiVars>>

AttDelete(c, id) ==
    /\ cl[c].pc \in {"idle", "done"}
    /\ IF attApi = "part_003"
       THEN /\ Finish(c, "delete", <<>>, NoBody, 405, "Method not allowed")
            /\ att' = att
       ELSE LET keep == SelectSeq(att, LAMBDA r : r.id # id)
            IN IF keep = att
               THEN /\ Finish(c, "delete", <<>>, NoBody, 404, "Attendance not found")
                    /\ att' = att
               ELSE /\ att' = keep
                    /\ Finish(c, "delete", <<>>, NoBody, 200, "")
    /\ UNCHANGED <<attNext, userVars, cfgVars, storeVars, video, rd, adm, dash, tod, chatVars, fence, loginVars, aiVars>>

AttIds == 1..MaxAtt

\* the attendance handler under concurrent requests
NextAtt ==
    \/ \E c \in Clients, b \in RawBodies : RawPost(c, b)
    \/ \E c \in Clients : AttPostCheck(c)
    \/ \E c \in Clients : AttPostCreate(c)
    \/ \E c \in Clients : AttPostPlain(c)
    \/ \E c \in Clients, id \in AttIds, b \in PutBodies : AttPut(c, id, b)
    \/ \E c \in Clients, id \in AttIds : AttDelete(c, id)

\* one browser checking in through markAttendance
NextMark ==
    \/ \E u \in UserIds, xy \in Coords \cup {<<>>}, d \in Dates, ok \in BOOLEAN :
          MarkAttendance(1, u, xy, d, ok)
    \/ AttPostCheck(1)
    \/ AttPostCreate(1)
    \/ AttPostPlain(1)

\* markAttendance up to its POST, and its geofence lines at distances around the radius
NextFence ==
    \/ \E u \in UserIds, xy \in Coords \cup {<<>>}, d \in Dates, ok \in BOOLEAN :
          MarkAttendance(1, u, xy, d, ok)
    \/ \E h \in BOOLEAN, d \in FenceDistances : GeofenceCheck(h, d)

\* ------------------------------------------------------------ /api/users
MaxUid == 3

UIdle == [pc |-> "idle", op |-> "none", pin |-> "", body |-> <<>>, status |-> 0, err |-> ""]

UFinish(c, op, status, err) ==
    ucl' = [ucl EXCEPT ![c] = [pc |-> "done", op |-> op, pin |-> "", body |-> <<>>,
                               status |-> status, err |-> err]]

\* a collection whose pin index was never built: no write is ever refused
NoPinIndex(store, pin, self) == FALSE

\* the unique index on pin (unique: true, built by autoIndex): would writing `pin`
\* into the document with _id `self` (0 for an insert) collide with another document?
PinIndexViolation(store, pin, self) ==
    \E i \in 1..Len(store) : store[i].pin = pin /\ store[i].id # self

\* User.findOne({pin}) / User.find({pin})
UserFind(store, pin) == SelectSeq(store, LAMBDA u : u.pin = pin)

UserPostBodies ==
    {[name |-> "N" \o p, pin |-> p, role |-> STUDENT, password |-> "pw1"] : p \in Pins \cup {""}}

UserDoc(id, b) ==
    [id |-> id, pin |-> b.pin, name |-> b.name, role |-> b.role, password |-> b.password,
     access_revoked |-> FALSE, college_code |-> "C1"]

\* schema validation on create: name, pin and role are required
UserValid(b) == Truthy(b.name) /\ Truthy(b.pin) /\ Truthy(b.role)

UsersPost(c, b) ==
    /\ ucl[c].pc \in {"idle", "done"}
    /\ ucl' = [ucl EXCEPT ![c] = [pc |-> "posted", op |-> "post", pin |-> "", body |-> b,
                                  status |-> 0, err |-> ""]]
    /\ UNCHANGED <<users, uNext, attVars, cfgVars, storeVars, video, rd, adm, dash, tod, chatVars, fence, loginVars, aiVars>>

\* the handler with the explicit lookup: field check and findOne, up to the await before create
UsersPostCheck(c) ==
    /\ usersApi = "part_002"
    /\ ucl[c].pc = "posted"
    /\ LET b == ucl[c].body
       IN IF ~UserValid(b)
          THEN UFinish(c, "post", 400, "name, pin, and role are required")
          ELSE IF Len(UserFind(users, b.pin)) > 0
          THEN UFinish(c, "post", 409, "User already exists")
          ELSE ucl' = [ucl EXCEPT ![c].pc = "creating"]
    /\ UNCHANGED <<users, uNext, attVars, cfgVars, storeVars, video, rd, adm, dash, tod, chatVars, fence, loginVars, aiVars>>

\* User.create: validation, then the insert, which the unique index may refuse
UsersCreate(c) ==
    LET b == ucl[c].body
    IN IF ~UserValid(b)
       THEN /\ UFinish(c, "post", 500, "Internal error")
            /\ UNCHANGED <<users, uNext>>
       ELSE IF PinIndexViolation(users, b.pin, 0)
       THEN /\ UFinish(c, "post", 500, "E11000 duplicate key")
            /\ UNCHANGED <<users, uNext>>
       ELSE /\ uNext <= MaxUid
            /\ users' = Append(users, UserDoc(uNext, b))
            /\ uNext' = uNext + 1
            /\ UFinish(c, "post", 201, "")

UsersPostCreate(c) ==
    /\ usersApi = "part_002"
    /\ ucl[c].pc = "creating"
    /\ UsersCreate(c)
    /\ UNCHANGED <<attVars, cfgVars, storeVars, video, rd, adm, dash, tod, chatVars, fence, loginVars, aiVars>>

\* api/users.ts: User.create(req.body) straight away
UsersPostPlain(c) ==
    /\ usersApi = "api_users"
    /\ ucl[c].pc = "posted"
    /\ UsersCreate(c)
    /\ UNCHANGED <<attVars, cfgVars, storeVars, video, rd, adm, dash, tod, chatVars, fence, loginVars, aiVars>>

UserPutBodies ==
    {[pin |-> p] : p \in Pins} \cup {[access_revoked |-> b] : b \in BOOLEAN}

\* findOneAndUpdate({pin}, req.body): the first match gets the body's fields
UserUpdate(doc, body) ==
    [f \in DOMAIN doc |-> IF f \in DOMAIN body THEN body[f] ELSE doc[f]]

\* the PUT branch on collection store: the response and the collection afterwards;
\* pin = "" is a request without the pin parameter
UsersPutResult(api, store, pin, body) ==
    LET hit == {i \in 1..Len(store) : store[i].pin = pin}
    IN IF ~Truthy(pin)
       THEN [status |-> 400, users |-> store, docs |-> <<>>,
             err |-> IF api = "api_users" THEN "pin required" ELSE "pin is required"]
       ELSE IF hit = {}
       THEN [status |-> 404, users |-> store, docs |-> <<>>,
             err |-> IF api = "api_users" THEN "Not found" ELSE "User not found"]
       ELSE LET i == CHOOSE k \in hit : \A j \in hit : k <= j
                doc == UserUpdate(store[i], body)
            IN IF PinIndexViolation(store, doc.pin, doc.id)
               THEN [status |-> 500, users |-> store, docs |-> <<>>,
                     err |-> "E11000 duplicate key"]
               ELSE [status |-> 200, users |-> [store EXCEPT ![i] = doc], docs |-> <<doc>>,
                     err |-> ""]

\* PUT /api/users?pin=<pin>
UsersPut(c, pin, body) ==
    /\ ucl[c].pc \in {"idle", "done"}
    /\ LET r == UsersPutResult(usersApi, users, pin, body)
       IN /\ users' = r.users
          /\ UFinish(c, "put", r.status, r.err)
    /\ UNCHANGED <<uNext, attVars, cfgVars, storeVars, video, rd, adm, dash, tod, chatVars, fence, loginVars, aiVars>>

\* DELETE /api/users?pin=<pin>: findOneAndDelete removes the first match
UsersDelete(c, pin) ==
    /\ ucl[c].pc \in {"idle", "done"}
    /\ LET hit == {i \in 1..Len(users) : users[i].pin = pin}
       IN IF ~Truthy(pin)
          THEN /\ UFinish(c, "delete", 400, "pin is required")
               /\ users' = users
          ELSE IF hit = {}
          THEN /\ UFinish(c, "delete", 404, "User not found")
               /\ users' = users
          ELSE LET i == CHOOSE k \in hit : \A j \in hit : k <= j
               IN /\ users' = [k \in 1..(Len(users) - 1) |->
                                 IF k < i THEN users[k] ELSE users[k + 1]]
                  /\ UFinish(c, "delete", 200, "")
    /\ UNCHANGED <<uNext, attVars, cfgVars, storeVars, video, rd, adm, dash, tod, chatVars, fence, loginVars, aiVars>>

\* the users handler under concurrent requests
NextUsers ==
    \/ \E c \in Clients, b \in UserPostBodies : UsersPost(c, b)
    \/ \E c \in Clients : UsersPostCheck(c)
    \/ \E c \in Clients : UsersPostCreate(c)
    \/ \E c \in Clients : UsersPostPlain(c)
    \/ \E c \in Clients, p \in Pins \cup {""}, b \in UserPutBodies : UsersPut(c, p, b)
    \/ \E c \in Clients, p \in Pins \cup {""} : UsersDelete(c, p)

\* --------------------------------------------------- HTTP responses, errors
Response(status, statusText, shape, docs, error, message) ==
    [status |-> status, statusText |-> statusText, json |-> TRUE, shape |-> shape,
     docs |-> docs, error |-> error, message |-> message]

Ok(r) == r.status >= 200 /\ r.status <= 299

\* handleApiError without the look into the body
ErrorMessageStatusOnly(r) == "Error " \o ToString(r.status) \o ": " \o r.statusText

\* the message handleApiError throws for a response that is not ok
ErrorMessage(r) ==
    IF r.json /\ Truthy(r.error) THEN r.error
    ELSE IF r.json /\ Truthy(r.message) THEN r.message
    ELSE "Error " \o ToString(r.status) \o ": " \o r.statusText

ConnectMessage == "Unable to connect to the server. Please check your internet connection."

\* GET /api/users?pin=<pin>, per handler file; dbOk = FALSE is a failing query
UsersGet(api, store, pin, dbOk) ==
    IF ~dbOk
    THEN Response(500, "Internal Server Error", "error", <<>>, "",
                  IF api = "api_users" THEN "Internal error" ELSE "Internal server error")
    ELSE IF ~Truthy(pin)
    THEN Response(200, "OK", "array", store, "", "")
    ELSE IF api = "api_users"
    THEN Response(200, "OK", "array", UserFind(store, pin), "", "")
    ELSE IF Len(UserFind(store, pin)) = 0
    THEN Response(404, "Not Found", "error", <<>>, "", "User not found")
    ELSE Response(200, "OK", "object", <<UserFind(store, pin)[1]>>, "", "")

\* ------------------------------------------------------------------ login
LoginPins == Pins \cup {"P9"}
Infra == {"ok", "db_error", "network_error", "unauthorized"}

NoLogin == [kind |-> "none", pin |-> "", pass |-> "", shape |-> "", docs |-> <<>>,
            msg |-> "", credOk |-> FALSE, status |-> 0]

\* user.access_revoked / user.role as login reads them off the parsed body: a list
\* has neither property
BodyRevoked(r) == r.shape = "object" /\ r.docs[1].access_revoked
BodyRole(r) == IF r.shape = "object" THEN r.docs[1].role ELSE "undefined"

\* the value login settles with for response r
LoginOutcome(r) ==
    IF r.status = 401 THEN [kind |-> "null", msg |-> ""]
    ELSE IF ~Ok(r) THEN [kind |-> "throw", msg |-> ErrorMessage(r)]
    ELSE IF BodyRevoked(r) THEN [kind |-> "throw", msg |-> "Access revoked for this user."]
    ELSE IF BodyRole(r) = SUPER_ADMIN THEN [kind |-> "otp", msg |-> ""]
    ELSE [kind |-> "user", msg |-> ""]

Login(pin, pass, infra) ==
    /\ LET cred == \E i \in 1..Len(users) : users[i].pin = pin /\ users[i].password = pass
           r == IF infra = "unauthorized"
                THEN Response(401, "Unauthorized", "error", <<>>, "", "")
                ELSE UsersGet(usersApi, users, pin, infra # "db_error")
           out == LoginOutcome(r)
       IN loginRes' =
            IF infra = "network_error"
            THEN [kind |-> "throw", pin |-> pin, pass |-> pass, shape |-> "", docs |-> <<>>,
                  msg |-> ConnectMessage, credOk |-> cred, status |-> 0]
            ELSE [kind |-> out.kind, pin |-> pin, pass |-> pass,
                  shape |-> IF out.kind \in {"user", "otp"} THEN r.shape ELSE "",
                  docs |-> IF out.kind \in {"user", "otp"} THEN r.docs ELSE <<>>,
                  msg |-> out.msg, credOk |-> cred, status |-> r.status]
    /\ UNCHANGED <<otpStore, otpRes, otpLog, userVars, attVars, cfgVars, storeVars, video, rd, adm, dash, tod, chatVars, fence, aiVars>>

\* --------------------------------------------------------- MockStorage, OTP
Otps == {"111111", "222222"}
JsNull == [t |-> "null", v |-> ""]
JsStr(x) == [t |-> "string", v |-> x]
JsValues == {JsNull} \cup {JsStr(x) : x \in Otps}

\* JSON.stringify / JSON.parse on the values the OTP keys hold
Stringify(v) == IF v.t = "null" THEN "null" ELSE "\"" \o v.v \o "\""
Parse(text) == CHOOSE v \in JsValues : Stringify(v) = text
\* MockStorage.getItem: a missing key (no text) reads as null
GetItem(text) == IF Truthy(text) THEN Parse(text) ELSE JsNull

NoOtpRes == [kind |-> "none", uid |-> 0, otp |-> "", stored |-> "", docs |-> <<>>]
NoOtpLog == [calls |-> 0, latest |-> [u \in UserIds |-> ""], spent |-> [u \in UserIds |-> FALSE]]

\* a verification that leaves the stored OTP in place
KeepOtp(store, uid) == store

\* storage.setItem(`LOGIN_OTP_${userId}`, null)
ClearOtp(store, uid) == [store EXCEPT ![uid] = Stringify(JsNull)]

\* sendLoginOtp: the OTP is stored before the mail goes out
SendLoginOtp(uid, otp) ==
    /\ otpStore' = [otpStore EXCEPT ![uid] = Stringify(JsStr(otp))]
    /\ otpLog' = [otpLog EXCEPT !.latest[uid] = otp, !.spent[uid] = FALSE]
    /\ UNCHANGED <<loginRes, otpRes, userVars, attVars, cfgVars, storeVars, video, rd, adm, dash, tod, chatVars, fence, aiVars>>

VerifyLoginOtp(uid, otp, fetchOk) ==
    /\ LET storedOtp == GetItem(otpStore[uid])
           found == SelectSeq(UsersGetAll, LAMBDA u : u.id = uid)
       IN IF storedOtp.t = "string" /\ Truthy(storedOtp.v) /\ storedOtp = JsStr(otp)
          THEN /\ otpStore' = ClearOtp(otpStore, uid)
               /\ otpRes' = [kind |-> IF ~fetchOk THEN "throw"
                                      ELSE IF Len(found) = 0 THEN "null" ELSE "user",
                             uid |-> uid, otp |-> otp, stored |-> otpStore[uid],
                             docs |-> IF fetchOk /\ Len(found) > 0 THEN <<found[1]>> ELSE <<>>]
          ELSE /\ otpStore' = otpStore
               /\ otpRes' = [kind |-> "null", uid |-> uid, otp |-> otp,
                             stored |-> otpStore[uid], docs |-> <<>>]
    /\ otpLog' = [otpLog EXCEPT !.calls = 1 - @,
                                !.spent[uid] = @ \/ (Truthy(otp) /\ otpLog.latest[uid] = otp)]
    /\ UNCHANGED <<loginRes, userVars, attVars, cfgVars, storeVars, video, rd, adm, dash, tod, chatVars, fence, aiVars>>

NextLogin ==
    \/ \E p \in LoginPins, w \in Passwords, i \in Infra : Login(p, w, i)
    \/ \E u \in UserIds, o \in Otps : SendLoginOtp(u, o)
    \/ \E u \in UserIds, o \in Otps \cup {""}, ok \in BOOLEAN : VerifyLoginOtp(u, o, ok)

\* the OTP functions on their own
NextOtp ==
    \/ \E u \in UserIds, o \in Otps : SendLoginOtp(u, o)
    \/ \E u \in UserIds, o \in Otps \cup {""}, ok \in BOOLEAN : VerifyLoginOtp(u, o, ok)

\* ------------------------------------------------------- CogniCraft client
\* geminiClient sets aiClientState once, when the module loads
AiInitialize(ok, withClient) ==
    /\ ai.state = "unset"
    /\ ai' = [state |-> "set", isInitialized |-> ok, client |-> withClient]
    /\ UNCHANGED <<face, svc, loginVars, userVars, attVars, cfgVars, storeVars, video, rd, adm, dash, tod, chatVars, fence>>

GenericAiMessage ==
    "Could not generate content from the AI service. Please check your API key and network connection."
NotInitializedMessage == "CogniCraft AI client is not initialized."

\* ------------------------------------------------------------- verifyFace
\* what the provider's answer can be
Qualities == {"GOOD", "POOR"}
ProviderAnswers ==
    {[kind |-> "error", isMatch |-> FALSE, quality |-> ""],
     [kind |-> "malformed", isMatch |-> FALSE, quality |-> ""]}
        \cup {[kind |-> "json", isMatch |-> m, quality |-> q] : m \in BOOLEAN, q \in Qualities}

NoFace == [pc |-> "idle", ref |-> "", calls |-> 0, failed |-> FALSE, answer |-> "",
           kind |-> "none", isMatch |-> FALSE, quality |-> "", reason |-> ""]

\* a catch block that lets the error through
FaceRethrow(f) ==
    [f EXCEPT !.pc = "done", !.kind = "throw", !.reason = GenericAiMessage]

\* the catch block: mocked success
FaceFallback(f) ==
    [f EXCEPT !.pc = "done", !.kind = "return", !.isMatch = TRUE,
              !.quality = "GOOD", !.reason = "OK (Mocked Verification - AI Error)"]

\* a parse that reads every answer as a match
ParseAlwaysMatch(f, a) ==
    [f EXCEPT !.pc = "done", !.kind = "return",
              !.answer = IF a.isMatch THEN "match" ELSE "no match",
              !.isMatch = TRUE, !.quality = a.quality, !.reason = "OK"]

\* JSON.parse(response.text) as VerificationResult
FaceParsed(f, a) ==
    [f EXCEPT !.pc = "done", !.kind = "return",
              !.answer = IF a.isMatch THEN "match" ELSE "no match",
              !.isMatch = a.isMatch, !.quality = a.quality,
              !.reason = IF a.quality = "POOR" THEN "Blurry photo"
                         ELSE IF a.isMatch THEN "OK" ELSE "Faces do not match"]

\* verifyFace up to its first await; ref says what kind of URL the reference image is
VerifyFaceStart(ref) ==
    /\ ai.state = "set"
    /\ face.pc \in {"idle", "done"}
    /\ face' =
         IF ~ai.isInitialized
         THEN [NoFace EXCEPT !.pc = "done", !.ref = ref, !.kind = "return", !.isMatch = TRUE,
                 !.quality = "GOOD",
                 !.reason = "OK (Mocked Verification - AI Not Initialized)"]
         ELSE IF ref = "http"
         THEN [NoFace EXCEPT !.pc = "loadingImage", !.ref = ref]
         ELSE [NoFace EXCEPT !.pc = "prepared", !.ref = ref]
    /\ UNCHANGED <<ai, svc, loginVars, userVars, attVars, cfgVars, storeVars, video, rd, adm, dash, tod, chatVars, fence>>

\* imageToDataUrl settles
FaceImageLoaded(ok) ==
    /\ face.pc = "loadingImage"
    /\ face' = IF ok THEN [face EXCEPT !.pc = "prepared"]
               ELSE FaceFallback([face EXCEPT !.failed = TRUE])
    /\ UNCHANGED <<ai, svc, loginVars, userVars, attVars, cfgVars, storeVars, video, rd, adm, dash, tod, chatVars, fence>>

\* _generateContent: the client check, then the one provider call
FaceGenerate ==
    /\ face.pc = "prepared"
    /\ face' = IF ~ai.isInitialized \/ ~ai.client
               THEN FaceFallback([face EXCEPT !.failed = TRUE])
               ELSE [face EXCEPT !.pc = "waiting", !.calls = @ + 1]
    /\ UNCHANGED <<ai, svc, loginVars, userVars, attVars, cfgVars, storeVars, video, rd, adm, dash, tod, chatVars, fence>>

\* the provider call settles
FaceProviderSettles(a) ==
    /\ face.pc = "waiting"
    /\ face' = IF a.kind = "json" THEN FaceParsed(face, a)
               ELSE FaceFallback([face EXCEPT !.failed = TRUE])
    /\ UNCHANGED <<ai, svc, loginVars, userVars, attVars, cfgVars, storeVars, video, rd, adm, dash, tod, chatVars, fence>>

\* ------------------------------------------- service calls and their errors
\* the responses a request can get: from the handlers, or from what stands before them
HttpResponses ==
    { Response(200, "OK", "array", <<>>, "", ""),
      Response(400, "Bad Request", "error", <<>>, "validation failed", ""),
      Response(401, "Unauthorized", "error", <<>>, "", ""),
      Response(404, "Not Found", "error", <<>>, "", "User not found"),
      Response(409, "Conflict", "error", <<>>, "", "Attendance already marked for this user today"),
      Response(500, "Internal Server Error", "error", <<>>, "", "Internal server error"),
      Response(500, "Internal Server Error", "error", <<>>, "mail failed", "Email configuration missing on server."),
      [Response(502, "Bad Gateway", "error", <<>>, "", "") EXCEPT !.json = FALSE] }

\* handleApiError: throw for a response that is not ok, else the parsed body
HandleApiError(r) ==
    IF ~Ok(r) THEN [kind |-> "throw", value |-> "", msg |-> ErrorMessage(r)]
    ELSE IF ~r.json THEN [kind |-> "throw", value |-> "", msg |-> "SyntaxError"]
    ELSE [kind |-> "return", value |-> "data", msg |-> ""]

\* safeFetch: a failed fetch becomes the connection message, anything else is rethrown
SafeFetch(r, network) ==
    IF ~network THEN [kind |-> "throw", value |-> "", msg |-> ConnectMessage]
    ELSE HandleApiError(r)

Relaying == {"getUsers", "updateUser", "markAttendance"}
ListSwallowing == {"getAttendanceForUser", "getAttendanceForDate"}
HttpFns == Relaying \cup ListSwallowing \cup {"getTodaysAttendanceForUser", "sendEmail", "login"}

\* what each service function makes of its request's outcome
ServiceOutcome(fn, r, network) ==
    LET o == SafeFetch(r, network)
    IN IF fn \in Relaying THEN o
       ELSE IF fn \in ListSwallowing
       THEN IF o.kind = "throw" THEN [kind |-> "return", value |-> "[]", msg |-> ""] ELSE o
       ELSE IF fn = "getTodaysAttendanceForUser"
       THEN IF o.kind = "throw" THEN [kind |-> "return", value |-> "null", msg |-> ""] ELSE o
       ELSE IF fn = "sendEmail"
       THEN IF o.kind = "throw" THEN [kind |-> "return", value |-> "{success: false}", msg |-> ""]
            ELSE [kind |-> "return", value |-> "{success: true}", msg |-> ""]
       ELSE \* login: its own fetch, 401 first
            IF ~network THEN o
            ELSE LET l == LoginOutcome(r)
                 IN [kind |-> IF l.kind = "throw" THEN "throw" ELSE "return",
                     value |-> IF l.kind = "throw" THEN "" ELSE l.kind, msg |-> l.msg]

NoSvc == [fn |-> "", r |-> Response(0, "", "", <<>>, "", ""), network |-> TRUE, sdk |-> "",
          kind |-> "none", value |-> "", msg |-> ""]

ServiceCall(fn, r, network) ==
    /\ LET o == ServiceOutcome(fn, r, network)
       IN svc' = [fn |-> fn, r |-> r, network |-> network, sdk |-> "",
                  kind |-> o.kind, value |-> o.value, msg |-> o.msg]
    /\ UNCHANGED <<ai, face, loginVars, userVars, attVars, cfgVars, storeVars, video, rd, adm, dash, tod, chatVars, fence>>

\* the SDK's generateContent settles with a response or rejects with SdkMessage
SdkMessage == "429 RESOURCE_EXHAUSTED"
AiFns == {"summarizeNotes", "generateQuiz", "generateSpeech"}

\* _generateContent: client check, the SDK call, its catch
GenerateContent(sdk) ==
    IF ~ai.isInitialized \/ ~ai.client
    THEN [kind |-> "throw", value |-> "", msg |-> NotInitializedMessage]
    ELSE IF sdk = "error" THEN [kind |-> "throw", value |-> "", msg |-> GenericAiMessage]
    ELSE [kind |-> "return", value |-> "data", msg |-> ""]

\* generateSpeech calls the SDK itself, without a catch
GenerateSpeech(sdk) ==
    IF ~ai.isInitialized \/ ~ai.client
    THEN [kind |-> "throw", value |-> "", msg |-> NotInitializedMessage]
    ELSE IF sdk = "error" THEN [kind |-> "throw", value |-> "", msg |-> SdkMessage]
    ELSE [kind |-> "return", value |-> "data", msg |-> ""]

AiCall(fn, sdk) ==
    /\ ai.state = "set"
    /\ LET o == IF fn = "generateSpeech" THEN GenerateSpeech(sdk) ELSE GenerateContent(sdk)
       IN svc' = [fn |-> fn, r |-> NoSvc.r, network |-> TRUE,
                  sdk |-> IF ai.isInitialized /\ ai.client THEN sdk ELSE "",
                  kind |-> o.kind, value |-> o.value, msg |-> o.msg]
    /\ UNCHANGED <<ai, face, loginVars, userVars, attVars, cfgVars, storeVars, video, rd, adm, dash, tod, chatVars, fence>>

\* face verification on its own
NextFace ==
    \/ \E ok \in BOOLEAN, c \in BOOLEAN : AiInitialize(ok, c)
    \/ \E ref \in {"data", "http"} : VerifyFaceStart(ref)
    \/ \E ok \in BOOLEAN : FaceImageLoaded(ok)
    \/ FaceGenerate
    \/ \E a \in ProviderAnswers : FaceProviderSettles(a)

\* the service layer: every call settles before the next is looked at
NextSvc ==
    \/ NextFace
    \/ \E fn \in HttpFns, r \in HttpResponses, n \in BOOLEAN : ServiceCall(fn, r, n)
    \/ \E fn \in AiFns, sdk \in {"ok", "error"} : AiCall(fn, sdk)

\* ------------------------------------------------------ MockStorage lists
MaxEntries == 2
MaxClock == 2

APPS == "MOCK_APPLICATIONS"
FEEDBACK == "MOCK_FEEDBACK"
StoreKeys == {APPS, FEEDBACK}
AppPins == {"P1", "P9"}
PENDING == "PENDING"
AppStatuses == {PENDING, "APPROVED"}
FeedbackStatuses == {"New", "Resolved"}

\* the objects the two lists hold
AppEntries ==
    [id : 1..MaxClock, pin : AppPins, userId : UserIds, payload : 1..MaxEntries,
     status : AppStatuses]
FeedbackEntries == [id : 1..MaxClock, message : 1..MaxEntries, status : FeedbackStatuses]
Entries(key) == IF key = APPS THEN AppEntries ELSE FeedbackEntries

\* JSON.stringify of one object of a list, JSON.parse of that text
EntryText(key, e) ==
    IF key = APPS
    THEN "{id:app-" \o ToString(e.id) \o ",pin:" \o e.pin \o ",userId:" \o ToString(e.userId)
         \o ",payload:" \o ToString(e.payload) \o ",status:" \o e.status \o "}"
    ELSE "{id:fb-" \o ToString(e.id) \o ",message:" \o ToString(e.message)
         \o ",status:" \o e.status \o "}"
\* the texts of all objects, computed once
TextOf == [key \in StoreKeys |-> [e \in Entries(key) |-> EntryText(key, e)]]
\* the object each text stands for, computed once
EntryOf ==
    [key \in StoreKeys |->
        [t \in {TextOf[key][e] : e \in Entries(key)} |->
            CHOOSE e \in Entries(key) : TextOf[key][e] = t]]
ParseEntry(key, text) == EntryOf[key][text]

\* a stored value: no item under the key, or the text of an array
NoText == [has |-> FALSE, items |-> <<>>]
StringifyList(key, list) ==
    [has |-> TRUE, items |-> [i \in 1..Len(list) |-> TextOf[key][list[i]]]]
ParseList(key, text) == [i \in 1..Len(text.items) |-> ParseEntry(key, text.items[i])]

EmptyStorage == [store |-> [k \in StoreKeys |-> NoText], local |-> [k \in StoreKeys |-> NoText]]

\* storage.getItem(key) || []
GetItemList(st, key) == IF st.store[key].has THEN ParseList(key, st.store[key]) ELSE <<>>
\* storage.setItem(key, list): the Map and, in the browser, localStorage
SetItemList(st, key, list) ==
    [store |-> [st.store EXCEPT ![key] = StringifyList(key, list)],
     local |-> [st.local EXCEPT ![key] = StringifyList(key, list)]]

KeepNewestOnly(list, e) == <<e>>

\* apps.unshift(newApp), feedbackList.unshift(newFeedback)
Unshift(list, e) == <<e>> \o list

NoJob == [pc |-> "idle", fn |-> "", pin |-> "", payload |-> 0, kind |-> "none"]
NoHist == [appNext |-> 1, fbNext |-> 1, appDone |-> {}, fbDone |-> {},
           appWant |-> [p \in 1..MaxEntries + 1 |-> ""], fbWant |-> [p \in 1..MaxEntries + 1 |-> ""],
           during |-> FALSE]
Awaiting(c) == job[c].pc = "getUsers"
\* entries handed to the two submit functions so far
Handed == (hist.appNext - 1) + (hist.fbNext - 1)

\* submitApplication up to its first await: the request for the users goes out
SubmitApplicationCall(c, pin) ==
    /\ job[c].pc = "idle"
    /\ Handed < MaxEntries
    /\ job' = [job EXCEPT ![c] = [pc |-> "getUsers", fn |-> "submitApplication", pin |-> pin,
                                  payload |-> hist.appNext, kind |-> "none"]]
    /\ hist' = [hist EXCEPT !.appNext = @ + 1]
    /\ UNCHANGED <<storage, clock, video, rd, adm, dash, tod, chatVars, fence, attVars, userVars, loginVars, aiVars, cfgVars>>

\* submitApplication from the users' arrival to the delay
SubmitApplicationResume(c, fetchOk) ==
    /\ Awaiting(c)
    /\ LET found == SelectSeq(UsersGetAll, LAMBDA u : u.pin = job[c].pin)
           apps == GetItemList(storage, APPS)
           newApp == [id |-> clock, pin |-> job[c].pin, userId |-> found[1].id,
                      payload |-> job[c].payload, status |-> PENDING]
       IN IF ~fetchOk \/ Len(found) = 0
          THEN /\ job' = [job EXCEPT ![c] = [NoJob EXCEPT !.kind = "throw"]]
               /\ UNCHANGED <<storage, hist>>
          ELSE /\ storage' = SetItemList(storage, APPS, Unshift(apps, newApp))
               /\ job' = [job EXCEPT ![c].pc = "delay"]
               /\ hist' = [hist EXCEPT !.appDone = @ \cup {job[c].payload},
                                       !.appWant[job[c].payload] = PENDING]
    /\ UNCHANGED <<clock, video, rd, adm, dash, tod, chatVars, fence, attVars, userVars, loginVars, aiVars, cfgVars>>

\* delay(data): the timer of 300 ms fires and the call returns
DelayElapses(c) ==
    /\ job[c].pc = "delay"
    /\ job' = [job EXCEPT ![c] = [NoJob EXCEPT !.kind = "return"]]
    /\ UNCHANGED <<storage, clock, hist, video, rd, adm, dash, tod, chatVars, fence, attVars, userVars, loginVars, aiVars, cfgVars>>

SubmitFeedback(c) ==
    /\ job[c].pc = "idle"
    /\ Handed < MaxEntries
    /\ LET feedbackList == GetItemList(storage, FEEDBACK)
           newFeedback == [id |-> clock, message |-> hist.fbNext, status |-> "New"]
       IN storage' = SetItemList(storage, FEEDBACK, Unshift(feedbackList, newFeedback))
    /\ job' = [job EXCEPT ![c] = [pc |-> "delay", fn |-> "submitFeedback", pin |-> "",
                                  payload |-> hist.fbNext, kind |-> "none"]]
    /\ hist' = [hist EXCEPT !.fbNext = @ + 1, !.fbDone = @ \cup {hist.fbNext},
                            !.fbWant[hist.fbNext] = "New",
                            !.during = @ \/ \E d \in Clients \ {c} : Awaiting(d)]
    /\ UNCHANGED <<clock, video, rd, adm, dash, tod, chatVars, fence, attVars, userVars, loginVars, aiVars, cfgVars>>

\* updateApplicationStatus: every entry with the id gets the status
UpdateApplicationStatus(c, appId, status) ==
    /\ job[c].pc = "idle"
    /\ LET apps == GetItemList(storage, APPS)
           hit == {i \in 1..Len(apps) : apps[i].id = appId}
           mapped == [i \in 1..Len(apps) |->
                         IF i \in hit THEN [apps[i] EXCEPT !.status = status] ELSE apps[i]]
       IN IF hit = {}
          THEN /\ job' = [job EXCEPT ![c] = [NoJob EXCEPT !.kind = "throw"]]
               /\ UNCHANGED <<storage, hist>>
          ELSE /\ storage' = SetItemList(storage, APPS, mapped)
               /\ job' = [job EXCEPT ![c] = [NoJob EXCEPT !.pc = "delay",
                                                          !.fn = "updateApplicationStatus"]]
               /\ hist' = [hist EXCEPT
                              !.appWant = [p \in DOMAIN @ |->
                                  IF \E i \in hit : apps[i].payload = p THEN status ELSE @[p]],
                              !.during = @ \/ \E d \in Clients \ {c} : Awaiting(d)]
    /\ UNCHANGED <<clock, video, rd, adm, dash, tod, chatVars, fence, attVars, userVars, loginVars, aiVars, cfgVars>>

\* updateFeedbackStatus: the first entry with the id gets the status
UpdateFeedbackStatus(c, id, status) ==
    /\ job[c].pc = "idle"
    /\ LET feedbackList == GetItemList(storage, FEEDBACK)
           hit == {i \in 1..Len(feedbackList) : feedbackList[i].id = id}
           first == CHOOSE i \in hit : \A j \in hit : i <= j
       IN IF hit = {}
          THEN /\ job' = [job EXCEPT ![c] = [NoJob EXCEPT !.kind = "throw"]]
               /\ UNCHANGED <<storage, hist>>
          ELSE /\ storage' = SetItemList(storage, FEEDBACK,
                                 [feedbackList EXCEPT ![first].status = status])
               /\ job' = [job EXCEPT ![c] = [NoJob EXCEPT !.pc = "delay",
                                                          !.fn = "updateFeedbackStatus"]]
               /\ hist' = [hist EXCEPT !.fbWant[feedbackList[first].message] = status,
                                       !.during = @ \/ \E d \in Clients \ {c} : Awaiting(d)]
    /\ UNCHANGED <<clock, video, rd, adm, dash, tod, chatVars, fence, attVars, userVars, loginVars, aiVars, cfgVars>>

\* a millisecond passes
Tick ==
    /\ clock < MaxClock
    /\ clock' = clock + 1
    /\ UNCHANGED <<storage, job, hist, video, rd, adm, dash, tod, chatVars, fence, attVars, userVars, loginVars, aiVars, cfgVars>>

NextStore ==
    \/ \E c \in Clients, pin \in AppPins : SubmitApplicationCall(c, pin)
    \/ \E c \in Clients, ok \in BOOLEAN : SubmitApplicationResume(c, ok)
    \/ \E c \in Clients : DelayElapses(c)
    \/ \E c \in Clients : SubmitFeedback(c)
    \/ \E c \in Clients, id \in 1..MaxClock, s \in AppStatuses : UpdateApplicationStatus(c, id, s)
    \/ \E c \in Clients, id \in 1..MaxClock, s \in FeedbackStatuses : UpdateFeedbackStatus(c, id, s)
    \/ Tick

\* ------------------------------------------------------------ generateVideo
MaxPolls == 3
AspectRatios == {"16:9", "9:16"}
\* what generateVideos / getVideosOperation can settle with
OperationAnswers == {"error", "pending", "done-link", "done-nolink"}
NoVideo == [pc |-> "idle", aspectRatio |-> "", polls |-> 0, msg |-> ""]

\* the operation after a call of the SDK has settled: the while test and what follows it
VideoAfter(v, answer) ==
    IF answer = "error" THEN [v EXCEPT !.pc = "thrown", !.msg = SdkMessage]
    ELSE IF answer = "pending" THEN [v EXCEPT !.pc = "sleeping"]
    ELSE IF answer = "done-nolink"
    THEN [v EXCEPT !.pc = "thrown", !.msg = "Video generation failed or returned no link."]
    ELSE [v EXCEPT !.pc = "returned"]

\* generateVideo: the client check and the generateVideos request
VideoCall(aspectRatio) ==
    /\ ai.state = "set"
    /\ video.pc \in {"idle", "returned", "thrown"}
    /\ video' = IF ~ai.isInitialized \/ ~ai.client
                THEN [pc |-> "thrown", aspectRatio |-> aspectRatio, polls |-> 0,
                      msg |-> NotInitializedMessage]
                ELSE [pc |-> "starting", aspectRatio |-> aspectRatio, polls |-> 0, msg |-> ""]
    /\ UNCHANGED <<aiVars, storeVars, attVars, userVars, loginVars, cfgVars, rd, adm, dash, tod, chatVars, fence>>

VideoStartSettles(answer) ==
    /\ video.pc = "starting"
    /\ video' = VideoAfter(video, answer)
    /\ UNCHANGED <<aiVars, storeVars, attVars, userVars, loginVars, cfgVars, rd, adm, dash, tod, chatVars, fence>>

\* the 10 s timer fires and getVideosOperation goes out
VideoTimer ==
    /\ video.pc = "sleeping"
    /\ video' = [video EXCEPT !.pc = "polling",
                              !.polls = IF @ < MaxPolls THEN @ + 1 ELSE @]
    /\ UNCHANGED <<aiVars, storeVars, attVars, userVars, loginVars, cfgVars, rd, adm, dash, tod, chatVars, fence>>

VideoPollSettles(answer) ==
    /\ video.pc = "polling"
    /\ video' = VideoAfter(video, answer)
    /\ UNCHANGED <<aiVars, storeVars, attVars, userVars, loginVars, cfgVars, rd, adm, dash, tod, chatVars, fence>>

NextVideo ==
    \/ \E ok \in BOOLEAN, c \in BOOLEAN : AiInitialize(ok, c)
    \/ \E fn \in AiFns, sdk \in {"ok", "error"} : AiCall(fn, sdk)
    \/ \E a \in AspectRatios : VideoCall(a)
    \/ \E a \in OperationAnswers : VideoStartSettles(a)
    \/ VideoTimer
    \/ \E a \in OperationAnswers : VideoPollSettles(a)

\* ------------------------------------------------------- tenant filtering
FACULTY == "FACULTY"
Colleges == {"C1", "C2"}
\* the users a read is made for: the role and the college are all the reads look at
CurrentUsers ==
    {[role |-> r, college_code |-> c] : r \in {SUPER_ADMIN, FACULTY}, c \in Colleges \cup {""}}

TenantUser(id, pin, role, college) ==
    [NewUser(id, pin, role, "pw1", FALSE) EXCEPT !.college_code = college]
\* user collections with users of several colleges, and of none
TenantUserStores ==
    { <<TenantUser(1, "P1", FACULTY, "C1"), TenantUser(2, "P2", STUDENT, c2),
        TenantUser(3, "P3", STUDENT, c3)>> : c2 \in Colleges, c3 \in {"C2", ""} }
TenantRecord(id, userId, date) ==
    [id |-> id, date |-> date, userId |-> userId, userName |-> "N", userPin |-> "P",
     status |-> "Present", location |-> NoLocation]
TenantRecords(id, userIds) == {TenantRecord(id, u, d) : u \in userIds, d \in Dates}
TenantAttStores ==
    {<<>>} \cup {<<a, b>> : a \in TenantRecords(1, {1, 2}), b \in TenantRecords(2, {2, 3})}

\* a filter that lets everything through
NoTenantFilter(items, colleges, currentUser) == items

\* applyTenantFilter; colleges[i] is getCollegeCode(items[i])
ApplyTenantFilter(items, colleges, currentUser) ==
    IF currentUser.role # SUPER_ADMIN /\ Truthy(currentUser.college_code)
    THEN LET keep == {i \in 1..Len(items) : colleges[i] = currentUser.college_code}
             F[n \in 0..Len(items)] ==
                 IF n = 0 THEN <<>>
                 ELSE IF n \in keep THEN Append(F[n - 1], items[n]) ELSE F[n - 1]
         IN F[Len(items)]
    ELSE items

\* getUsers on a user collection
GetUsers(store, currentUser) ==
    ApplyTenantFilter(store, [i \in 1..Len(store) |-> store[i].college_code], currentUser)

\* getUserIdToCollegeMap, read at one userId: undefined for an id the map lacks
CollegeOfUserId(store, currentUser, userId) ==
    LET mine == GetUsers(store, currentUser)
        hit == {i \in 1..Len(mine) : mine[i].id = userId}
    IN IF hit = {} THEN "undefined"
       ELSE mine[CHOOSE i \in hit : \A j \in hit : j <= i].college_code

\* find(query).sort({createdAt: -1}): the matching records, newest first
NewestFirst(list) == [i \in 1..Len(list) |-> list[Len(list) + 1 - i]]
\* GET /api/attendance with date, or with startDate and endDate, per handler file
AttGetByDate(api, store, date) ==
    NewestFirst(SelectSeq(store, LAMBDA r : r.date = date))
\* the place of a date in the calendar
DateIndex(d) == CHOOSE i \in 1..Len(DateList) : DateList[i] = d
\* part_003 reads startDate and endDate; api/attendance.ts reads neither
AttGetByRange(api, store, startDate, endDate) ==
    IF api = "part_003"
    THEN NewestFirst(SelectSeq(store, LAMBDA r :
             DateIndex(startDate) <= DateIndex(r.date) /\ DateIndex(r.date) <= DateIndex(endDate)))
    ELSE NewestFirst(store)

\* the tenant filter over the records of a response
FilterRecords(records, store, currentUser) ==
    ApplyTenantFilter(records,
        [i \in 1..Len(records) |-> CollegeOfUserId(store, currentUser, records[i].userId)],
        currentUser)

ReadFns == {"getUsers", "getAttendanceForDate", "getAttendanceForDateRange"}
NoRead == [fn |-> "", currentUser |-> [role |-> "", college_code |-> ""],
           from |-> "", to |-> "", ok |-> TRUE, kind |-> "none", result |-> <<>>]

\* one of the three reads, from call to result; ok = FALSE is a request that fails
TenantRead(fn, currentUser, from, to, ok) ==
    /\ rd' = [fn |-> fn, currentUser |-> currentUser,
              from |-> IF fn = "getUsers" THEN "" ELSE from,
              to |-> IF fn = "getAttendanceForDateRange" THEN to ELSE "", ok |-> ok,
              kind |-> IF ok \/ fn # "getUsers" THEN "return" ELSE "throw",
              result |->
                 IF ~ok THEN <<>>
                 ELSE IF fn = "getUsers" THEN GetUsers(UsersGetAll, currentUser)
                 ELSE IF fn = "getAttendanceForDate"
                 THEN FilterRecords(AttGetByDate(attApi, att, from), UsersGetAll, currentUser)
                 ELSE FilterRecords(AttGetByRange(attApi, att, from, to), UsersGetAll,
                                    currentUser)]
    /\ UNCHANGED <<attVars, userVars, cfgVars, loginVars, aiVars, storeVars, video, adm, dash, tod, chatVars, fence>>

NextTenant ==
    \E fn \in ReadFns, u \in CurrentUsers, from \in Dates, to \in Dates, ok \in BOOLEAN :
        TenantRead(fn, u, from, to, ok)

\* ------------------------------------------------- updateUser, deleteUser
\* qp / getQueryParam: a parameter the request does not carry reads as nothing
QueryParam(query, name) == IF name \in DOMAIN query THEN query[name] ELSE ""
\* the query string updateUser sends: ?id=<id>
UpdateUserQuery(id) == [id |-> id]

AdminIds == {1, 2, 3}
NoAdm == [pc |-> "idle", fn |-> "", id |-> 0, currentUser |-> NoRead.currentUser,
          force |-> FALSE, body |-> <<>>, before |-> <<>>, kind |-> "none", value |-> "",
          msg |-> "", docs |-> <<>>]

\* the PUT of updateUser reaches the handler, and safeFetch settles
PutSettles(a) ==
    LET r == UsersPutResult(usersApi, users, QueryParam(UpdateUserQuery(a.id), "pin"), a.body)
        m == ErrorMessage(Response(r.status, "", "error", <<>>, "", r.err))
    IN /\ users' = r.users
       /\ adm' = IF r.status = 200
                 THEN [a EXCEPT !.pc = "done", !.kind = "return", !.docs = r.docs,
                                !.value = IF a.fn = "deleteUser" THEN "{success: true}"
                                          ELSE "user"]
                 ELSE [a EXCEPT !.pc = "done", !.kind = "throw", !.msg = m]

\* updateUser: one PUT
UpdateUser(id, userData, currentUser) ==
    /\ adm.pc \in {"idle", "done"}
    /\ PutSettles([NoAdm EXCEPT !.fn = "updateUser", !.id = id, !.currentUser = currentUser,
                                !.body = userData, !.before = users])
    /\ UNCHANGED <<uNext, ucl, attVars, cfgVars, loginVars, aiVars, storeVars, video, rd, dash, tod, chatVars, fence>>

\* deleteUser up to its PUT: the users are fetched and the id looked up among them
DeleteUserCall(id, currentUser, forceHardDelete) ==
    /\ adm.pc \in {"idle", "done"}
    /\ LET a == [NoAdm EXCEPT !.fn = "deleteUser", !.id = id, !.currentUser = currentUser,
                              !.force = forceHardDelete, !.before = users]
           mine == GetUsers(UsersGetAll, currentUser)
           hit == {i \in 1..Len(mine) : mine[i].id = id}
           user == mine[CHOOSE i \in hit : \A j \in hit : i <= j]
       IN adm' = IF forceHardDelete \/ hit = {}
                 THEN [a EXCEPT !.pc = "done", !.kind = "return", !.value = "{success: false}"]
                 ELSE [a EXCEPT !.pc = "updating",
                                !.body = [user EXCEPT !.access_revoked = ~user.access_revoked]]
    /\ UNCHANGED <<userVars, attVars, cfgVars, loginVars, aiVars, storeVars, video, rd, dash, tod, chatVars, fence>>

\* deleteUser: its updateUser call settles
DeleteUserSettles ==
    /\ adm.pc = "updating"
    /\ PutSettles(adm)
    /\ UNCHANGED <<uNext, ucl, attVars, cfgVars, loginVars, aiVars, storeVars, video, rd, dash, tod, chatVars, fence>>

NextAdmin ==
    \/ \E id \in AdminIds, b \in UserPutBodies, u \in CurrentUsers : UpdateUser(id, b, u)
    \/ \E id \in AdminIds, u \in CurrentUsers, f \in BOOLEAN : DeleteUserCall(id, u, f)
    \/ DeleteUserSettles

\* ------------------------------------------------------ getDashboardStats
\* Math.round(presentCount / totalStudents * 100) for counts that are not negative
RoundPercent(presentCount, totalStudents) ==
    (200 * presentCount + totalStudents) \div (2 * totalStudents)

\* filteredAttendance.filter(Present and the user's role is STUDENT).length
CountPresent(filteredAttendance, collegeUsers) ==
    Len(SelectSeq(filteredAttendance, LAMBDA a :
           /\ a.status = "Present"
           /\ LET hit == {i \in 1..Len(collegeUsers) : collegeUsers[i].id = a.userId}
              IN hit # {} /\ collegeUsers[CHOOSE i \in hit : \A j \in hit : i <= j].role = STUDENT))

StatsFailures == {"none", "users", "attendance", "map"}
\* who opens the dashboard: an administrator of everything, and a faculty of each college
StatsUsers == {[role |-> SUPER_ADMIN, college_code |-> ""]}
              \cup {[role |-> FACULTY, college_code |-> c] : c \in Colleges}
\* two students of one college or of two, and a faculty user
StatsUserStores ==
    { <<TenantUser(1, "P1", FACULTY, "C1"), TenantUser(2, "P2", STUDENT, "C1"),
        TenantUser(3, "P3", STUDENT, c3)>> : c3 \in Colleges }
NoDash == [kind |-> "none", currentUser |-> NoRead.currentUser, today |-> "", fail |-> "none",
           presentToday |-> 0, absentToday |-> 0, attendancePercentage |-> 0]

\* getDashboardStats, from call to result; fail names the request that fails, if any
GetDashboardStats(currentUser, today, fail) ==
    /\ LET allUsers == GetUsers(UsersGetAll, currentUser)
           collegeUsers == ApplyTenantFilter(allUsers,
                               [i \in 1..Len(allUsers) |-> allUsers[i].college_code], currentUser)
           todaysAttendance ==
               IF fail \in {"attendance", "map"} THEN <<>>
               ELSE FilterRecords(AttGetByDate(attApi, att, today), UsersGetAll, currentUser)
           filteredAttendance ==
               SelectSeq(todaysAttendance, LAMBDA a :
                   \E i \in 1..Len(collegeUsers) : collegeUsers[i].id = a.userId)
           totalStudents == Len(SelectSeq(collegeUsers, LAMBDA u : u.role = STUDENT))
           presentCount == CountPresent(filteredAttendance, collegeUsers)
       IN dash' = IF fail = "users"
                  THEN [NoDash EXCEPT !.kind = "throw", !.currentUser = currentUser,
                                      !.today = today, !.fail = fail]
                  ELSE [kind |-> "return", currentUser |-> currentUser, today |-> today,
                        fail |-> fail,
                        presentToday |-> presentCount,
                        absentToday |-> totalStudents - presentCount,
                        attendancePercentage |->
                            IF totalStudents > 0 THEN RoundPercent(presentCount, totalStudents)
                            ELSE 0]
    /\ UNCHANGED <<attVars, userVars, cfgVars, loginVars, aiVars, storeVars, video, rd, adm, tod, chatVars, fence>>

\* users checking in from two browsers on the first day, and the dashboard being opened
\* on that day or the next
NextStats ==
    \/ \E c \in Clients, u \in UserIds, ok \in BOOLEAN :
          MarkAttendance(c, u, <<>>, DateList[1], ok)
    \/ \E c \in Clients : AttPostCheck(c)
    \/ \E c \in Clients : AttPostCreate(c)
    \/ \E c \in Clients : AttPostPlain(c)
    \/ \E u \in StatsUsers, d \in Dates, f \in StatsFailures : GetDashboardStats(u, d, f)

\* ---------------------------------------------- getTodaysAttendanceForUser
\* GET /api/attendance?userId=<userId>&date=<date>: part_003 reads both parameters,
\* api/attendance.ts reads date and userPin and no userId
AttGetByUserAndDate(api, store, userId, date) ==
    IF api = "part_003"
    THEN NewestFirst(SelectSeq(store, LAMBDA r : r.date = date /\ r.userId = userId))
    ELSE NewestFirst(SelectSeq(store, LAMBDA r : r.date = date))

NoToday == [kind |-> "none", userId |-> 0, today |-> "", ok |-> TRUE, records |-> <<>>]

\* getTodaysAttendanceForUser, from call to result: records is <<>> for null and
\* <<records[0]>> otherwise; ok = FALSE is a request that fails
GetTodaysAttendanceForUser(userId, today, ok) ==
    /\ LET records == AttGetByUserAndDate(attApi, att, userId, today)
       IN tod' = [kind |-> "return", userId |-> userId, today |-> today, ok |-> ok,
                  records |-> IF ok /\ Len(records) > 0 THEN <<records[1]>> ELSE <<>>]
    /\ UNCHANGED <<attVars, userVars, cfgVars, loginVars, aiVars, storeVars, video, rd, adm, dash, chatVars, fence>>

\* users checking in from two browsers on the first day, and one of them asking for
\* the own record of the day
NextToday ==
    \/ \E c \in Clients, u \in UserIds, ok \in BOOLEAN :
          MarkAttendance(c, u, <<>>, DateList[1], ok)
    \/ \E c \in Clients : AttPostCheck(c)
    \/ \E c \in Clients : AttPostCreate(c)
    \/ \E c \in Clients : AttPostPlain(c)
    \/ \E u \in UserIds, d \in Dates, ok \in BOOLEAN : GetTodaysAttendanceForUser(u, d, ok)

\* ------------------------------------------------ NotebookLLMPage (chat)
MaxSubmits == 2
MaxNow == 3
\* a tool that answers through a service call, and one that needs a file first
ToolIds == {"summary", "imageAnalyzer"}

\* the content a service call settles with
Settled(k, ok) == [kind |-> IF ok THEN "result" ELSE "error", of |-> k]

\* an update that writes the content and leaves the spinner on
MapKeepLoading(prev, id, content) ==
    [i \in 1..Len(prev) |-> IF prev[i].id = id THEN [prev[i] EXCEPT !.content = content]
                            ELSE prev[i]]

\* prev.map(msg => msg.id === id ? {...msg, content, isLoading: false} : msg)
MapSettled(prev, id, content) ==
    [i \in 1..Len(prev) |->
        IF prev[i].id = id THEN [prev[i] EXCEPT !.content = content, !.isLoading = FALSE]
        ELSE prev[i]]

\* the calls so far, each marked as one whose messages were cleared from the chat
AllCleared(cs) == [k \in 1..Len(cs) |-> [cs[k] EXCEPT !.cleared = TRUE]]

\* handleToolSelect's setInputText('') and setFile(null)
SelectClearsInput(text, attached) == <<"", FALSE>>

\* picking a tool in the sidebar or on the start page: chat, text and file are cleared
HandleToolSelect(id) ==
    /\ currentToolId' = id
    /\ chatHistory' = <<>>
    /\ inputText' = SelectClearsInput(inputText, file)[1]
    /\ file' = SelectClearsInput(inputText, file)[2]
    /\ calls' = AllCleared(calls)
    /\ now' = now
    /\ UNCHANGED <<attVars, userVars, cfgVars, loginVars, aiVars, storeVars, video, rd, adm,
                   dash, tod, fence>>
\* the button back to the tool list: no tool, the chat is cleared
BackToTools ==
    /\ Truthy(currentToolId)
    /\ currentToolId' = ""
    /\ chatHistory' = <<>>
    /\ calls' = AllCleared(calls)
    /\ UNCHANGED <<now, inputText, file>>
    /\ UNCHANGED <<attVars, userVars, cfgVars, loginVars, aiVars, storeVars, video, rd, adm,
                   dash, tod, fence>>
\* typing in the input box
SetInputText(text) ==
    /\ text # inputText
    /\ inputText' = text
    /\ UNCHANGED <<currentToolId, chatHistory, calls, now, file>>
    /\ UNCHANGED <<attVars, userVars, cfgVars, loginVars, aiVars, storeVars, video, rd, adm,
                   dash, tod, fence>>
\* attaching a file, or removing it with the badge's close button
SetFile(attached) ==
    /\ attached # file
    /\ file' = attached
    /\ UNCHANGED <<currentToolId, chatHistory, calls, now, inputText>>
    /\ UNCHANGED <<attVars, userVars, cfgVars, loginVars, aiVars, storeVars, video, rd, adm,
                   dash, tod, fence>>
\* handleSubmit up to its first await; t is what the second Date.now() reads.
\* The analyzer without a file throws before any await and is caught in the same run.
HandleSubmit(t) ==
    /\ (Truthy(inputText) \/ file) /\ Truthy(currentToolId)
    /\ Len(calls) < MaxSubmits
    /\ t \in {now, now + 1} /\ t <= MaxNow
    /\ LET k == Len(calls) + 1
           userMsg == [id |-> now, role |-> "user", content |-> [kind |-> "text", of |-> k],
                       isLoading |-> FALSE, call |-> k]
           loadingMsg == [id |-> t + 1, role |-> "model", content |-> [kind |-> "null", of |-> k],
                          isLoading |-> TRUE, call |-> k]
           appended == chatHistory \o <<userMsg, loadingMsg>>
       IN IF currentToolId = "imageAnalyzer" /\ ~file
          THEN /\ chatHistory' = MapSettled(appended, loadingMsg.id, Settled(k, FALSE))
               /\ calls' = Append(calls, [loadingId |-> loadingMsg.id, pc |-> "settled",
                                          cleared |-> FALSE])
          ELSE /\ chatHistory' = appended
               /\ calls' = Append(calls, [loadingId |-> loadingMsg.id, pc |-> "pending",
                                          cleared |-> FALSE])
    /\ now' = t
    /\ inputText' = ""
    /\ file' = FALSE
    /\ currentToolId' = currentToolId
    /\ UNCHANGED <<attVars, userVars, cfgVars, loginVars, aiVars, storeVars, video, rd, adm,
                   dash, tod, fence>>
\* the service call of the k-th handleSubmit settles, with a result or with an error
SubmitSettles(k, ok) ==
    /\ k \in 1..Len(calls) /\ calls[k].pc = "pending"
    /\ chatHistory' = MapSettled(chatHistory, calls[k].loadingId, Settled(k, ok))
    /\ calls' = [calls EXCEPT ![k].pc = "settled"]
    /\ UNCHANGED <<currentToolId, now, inputText, file>>
    /\ UNCHANGED <<attVars, userVars, cfgVars, loginVars, aiVars, storeVars, video, rd, adm,
                   dash, tod, fence>>
\* a millisecond passes
ChatTick ==
    /\ now < MaxNow
    /\ now' = now + 1
    /\ UNCHANGED <<currentToolId, chatHistory, calls, inputText, file>>
    /\ UNCHANGED <<attVars, userVars, cfgVars, loginVars, aiVars, storeVars, video, rd, adm,
                   dash, tod, fence>>
NextChat ==
    \/ \E id \in ToolIds : HandleToolSelect(id)
    \/ BackToTools
    \/ \E text \in {"", "hi"} : SetInputText(text)
    \/ \E attached \in BOOLEAN : SetFile(attached)
    \/ \E t \in 1..MaxNow : HandleSubmit(t)
    \/ \E k \in 1..MaxSubmits, ok \in BOOLEAN : SubmitSettles(k, ok)
    \/ ChatTick

\* ------------------------------------------------------------ specification
vars == <<usersApi, attApi, users, att, attNext, cl, uNext, ucl, loginRes, otpStore, otpRes, otpLog,
          ai, face, svc,
          storage, clock, job, hist, video, rd, adm, dash, tod,
          currentToolId, chatHistory, calls, now, inputText, file, fence>>

Init ==
    /\ \E d \in Deployments : usersApi = d[1] /\ attApi = d[2]
    /\ users \in InitialUserStores
    /\ att = <<>>
    /\ attNext = 1
    /\ cl = [c \in Clients |-> Idle]
    /\ uNext = Len(users) + 1
    /\ ucl = [c \in Clients |-> UIdle]
    /\ loginRes = NoLogin
    /\ otpStore = [u \in UserIds |-> ""]
    /\ otpRes = NoOtpRes
    /\ otpLog = NoOtpLog
    /\ ai = [state |-> "unset", isInitialized |-> FALSE, client |-> FALSE]
    /\ face = NoFace
    /\ svc = NoSvc
    /\ storage = EmptyStorage
    /\ clock = 1
    /\ job = [c \in Clients |-> NoJob]
    /\ hist = NoHist
    /\ video = NoVideo
    /\ rd = NoRead
    /\ adm = NoAdm
    /\ dash = NoDash
    /\ tod = NoToday
    /\ currentToolId = ""
    /\ chatHistory = <<>>
    /\ calls = <<>>
    /\ now = 1
    /\ inputText = ""
    /\ file = FALSE
    /\ fence = NoFence

\* the same start on one deployment, for the parts of the client that never look at
\* the backend's state
InitOne ==
    /\ usersApi = "api_users"
    /\ attApi = "api_attendance"
    /\ users = <<NewUser(1, "P1", SUPER_ADMIN, "pw1", FALSE), NewUser(2, "P2", STUDENT, "pw2", FALSE)>>
    /\ att = <<>>
    /\ attNext = 1
    /\ cl = [c \in Clients |-> Idle]
    /\ uNext = Len(users) + 1
    /\ ucl = [c \in Clients |-> UIdle]
    /\ loginRes = NoLogin
    /\ otpStore = [u \in UserIds |-> ""]
    /\ otpRes = NoOtpRes
    /\ otpLog = NoOtpLog
    /\ ai = [state |-> "unset", isInitialized |-> FALSE, client |-> FALSE]
    /\ face = NoFace
    /\ svc = NoSvc
    /\ storage = EmptyStorage
    /\ clock = 1
    /\ job = [c \in Clients |-> NoJob]
    /\ hist = NoHist
    /\ video = NoVideo
    /\ rd = NoRead
    /\ adm = NoAdm
    /\ dash = NoDash
    /\ tod = NoToday
    /\ currentToolId = ""
    /\ chatHistory = <<>>
    /\ calls = <<>>
    /\ now = 1
    /\ inputText = ""
    /\ file = FALSE
    /\ fence = NoFence

\* every request of the SDK settles and every timer fires
VideoFairness ==
    /\ WF_vars(\E a \in OperationAnswers : VideoStartSettles(a))
    /\ WF_vars(VideoTimer)
    /\ WF_vars(\E a \in OperationAnswers : VideoPollSettles(a))

SpecAtt == Init /\ [][NextAtt]_vars
SpecMark == Init /\ [][NextMark]_vars
SpecFence == Init /\ [][NextFence]_vars
SpecUsers == Init /\ [][NextUsers]_vars
SpecLogin == Init /\ [][NextLogin]_vars
\* collections holding users and records of several colleges
InitTenant ==
    /\ \E d \in Deployments : usersApi = d[1] /\ attApi = d[2]
    /\ users \in TenantUserStores
    /\ att \in TenantAttStores
    /\ attNext = Len(att) + 1
    /\ cl = [c \in Clients |-> Idle]
    /\ uNext = Len(users) + 1
    /\ ucl = [c \in Clients |-> UIdle]
    /\ loginRes = NoLogin
    /\ otpStore = [u \in UserIds |-> ""]
    /\ otpRes = NoOtpRes
    /\ otpLog = NoOtpLog
    /\ ai = [state |-> "unset", isInitialized |-> FALSE, client |-> FALSE]
    /\ face = NoFace
    /\ svc = NoSvc
    /\ storage = EmptyStorage
    /\ clock = 1
    /\ job = [c \in Clients |-> NoJob]
    /\ hist = NoHist
    /\ video = NoVideo
    /\ rd = NoRead
    /\ adm = NoAdm
    /\ dash = NoDash
    /\ tod = NoToday
    /\ currentToolId = ""
    /\ chatHistory = <<>>
    /\ calls = <<>>
    /\ now = 1
    /\ inputText = ""
    /\ file = FALSE
    /\ fence = NoFence

\* collections of several colleges before any attendance is recorded
InitStats ==
    /\ \E d \in Deployments : usersApi = d[1] /\ attApi = d[2]
    /\ users \in StatsUserStores
    /\ att = <<>>
    /\ attNext = 1
    /\ cl = [c \in Clients |-> Idle]
    /\ uNext = Len(users) + 1
    /\ ucl = [c \in Clients |-> UIdle]
    /\ loginRes = NoLogin
    /\ otpStore = [u \in UserIds |-> ""]
    /\ otpRes = NoOtpRes
    /\ otpLog = NoOtpLog
    /\ ai = [state |-> "unset", isInitialized |-> FALSE, client |-> FALSE]
    /\ face = NoFace
    /\ svc = NoSvc
    /\ storage = EmptyStorage
    /\ clock = 1
    /\ job = [c \in Clients |-> NoJob]
    /\ hist = NoHist
    /\ video = NoVideo
    /\ rd = NoRead
    /\ adm = NoAdm
    /\ dash = NoDash
    /\ tod = NoToday
    /\ currentToolId = ""
    /\ chatHistory = <<>>
    /\ calls = <<>>
    /\ now = 1
    /\ inputText = ""
    /\ file = FALSE
    /\ fence = NoFence

SpecTenant == InitTenant /\ [][NextTenant]_vars
SpecAdmin == InitTenant /\ [][NextAdmin]_vars
SpecStats == InitStats /\ [][NextStats]_vars
SpecToday == InitStats /\ [][NextToday]_vars
SpecChat == InitOne /\ [][NextChat]_vars
SpecOtp == Init /\ [][NextOtp]_vars
SpecSvc == InitOne /\ [][NextSvc]_vars
SpecStore == InitOne /\ [][NextStore]_vars
SpecVideo == InitOne /\ [][NextVideo]_vars /\ VideoFairness

\* the whole program: any part may take the next step
Next == NextAtt \/ NextMark \/ NextFence \/ NextUsers \/ NextLogin \/ NextOtp \/ NextTenant \/ NextAdmin \/ NextStats \/ NextToday \/ NextChat \/ NextSvc \/ NextStore \/ NextVideo
Spec == Init /\ [][Next]_vars

\* ------------------------------------------------------------------ claims
\* C1: markAttendance creates an attendance record only when coordinates were
\* supplied and their computed distance to the campus is at most CAMPUS_RADIUS_KM;
\* outside the radius, or without coordinates, no record is created.
C1_CheckInOnlyInsideGeofence ==
    \A c \in Clients :
        (cl[c].op = "mark" /\ cl[c].pc = "done" /\ cl[c].status = 201)
            => /\ cl[c].coords # <<>>
               /\ DistTable[cl[c].coords] <= CAMPUS_RADIUS_KM

\* C2: the attendance store never holds two records with the same (date, userPin),
\* whatever POST, PUT and DELETE requests arrive and however two POSTs interleave.
C2_OneRecordPerDateAndPin ==
    \A i, j \in 1..Len(att) :
        (att[i].date = att[j].date /\ att[i].userPin = att[j].userPin) => i = j

\* C7: no two stored users have the same pin, after any interleaving of POST, PUT
\* and DELETE requests to the users handler; a request that would give a second
\* user a pin already in use is rejected and leaves the stored users unchanged.
C7_PinsUnique ==
    \A i, j \in 1..Len(users) : users[i].pin = users[j].pin => i = j

C7_RejectedLeavesUsers ==
    \A c \in Clients :
        (ucl[c].pc # "done" /\ ucl'[c].pc = "done" /\ ucl'[c].status \in {409, 500})
            => users' = users

C7_UniquePins == []C7_PinsUnique /\ [][C7_RejectedLeavesUsers]_vars

\* a POST that passed the handler's own lookup and was then refused by the index,
\* and a PUT that tried to move a user onto a pin in use
C7_Witness ==
    /\ C7_PinsUnique
    /\ Len(users) >= 2
    /\ \E c \in Clients : ucl[c].pc = "done" /\ ucl[c].op = "post"
                          /\ ucl[c].err = "E11000 duplicate key"
    /\ \E c \in Clients : ucl[c].pc = "done" /\ ucl[c].op = "put"
                          /\ ucl[c].err = "E11000 duplicate key"

\* C3: login(pin, pass) settles with a user, or with an OTP challenge carrying a
\* user, only if a stored user has exactly that pin and that password.
C3_LoginNeedsPinAndPassword ==
    loginRes.kind \in {"user", "otp"} => loginRes.credOk

\* C6: for a user whose role is SUPER_ADMIN login never settles with the user itself
\* but with the OTP challenge, and such a user is handed out as authenticated only by
\* a verifyLoginOtp whose otp equals the stored one.
C6_AdminNeedsOtp ==
    /\ (loginRes.kind \in {"user", "otp"}
        /\ \E i \in 1..Len(loginRes.docs) : loginRes.docs[i].role = SUPER_ADMIN)
           => loginRes.kind = "otp"
    /\ otpRes.kind = "user" => otpRes.stored = Stringify(JsStr(otpRes.otp))

\* C4: one verifyFace invocation issues at most one generateContent call, and when
\* that call, the image preparation before it or the reading of its answer fails,
\* verifyFace does not throw: it returns isMatch = true with quality 'GOOD'.
C4_OneCallThenMockedSuccess ==
    /\ face.calls <= 1
    /\ face.failed => /\ face.pc = "done" /\ face.kind = "return"
                      /\ face.isMatch /\ face.quality = "GOOD"

C4_Witness ==
    face.pc = "done" /\ face.failed /\ face.calls = 1 /\ face.kind = "return"

Underlying(r) ==
    IF r.json /\ r.error # "" THEN r.error
    ELSE IF r.json /\ r.message # "" THEN r.message
    ELSE "Error " \o ToString(r.status) \o ": " \o r.statusText

HttpFailed == svc.fn \in HttpFns /\ svc.network /\ ~Ok(svc.r)
SdkFailed == svc.fn \in AiFns /\ svc.sdk = "error"

\* C8 as claimed: whenever a request gets a non-2xx response, or the SDK call fails,
\* the service function fails with the underlying message; none turns the failure
\* into a success value or an empty result.
C8_ErrorsAreRelayed ==
    /\ HttpFailed => svc.kind = "throw" /\ svc.msg = Underlying(svc.r)
    /\ SdkFailed => svc.kind = "throw" /\ svc.msg = SdkMessage
    /\ face.failed => face.kind = "throw"

\* C8 as amended: the functions that do not catch relay the message; login turns a
\* 401 into null; the attendance reads turn the failure into [] or null and sendEmail
\* into {success: false}; _generateContent replaces the SDK's message by its own fixed
\* one, generateSpeech relays it, and verifyFace answers with the mocked success.
C8_ErrorsRelayedOrSwallowed ==
    /\ HttpFailed =>
          IF svc.fn \in Relaying
          THEN svc.kind = "throw" /\ svc.msg = Underlying(svc.r)
          ELSE IF svc.fn = "login"
          THEN IF svc.r.status = 401 THEN svc.kind = "return" /\ svc.value = "null"
               ELSE svc.kind = "throw" /\ svc.msg = Underlying(svc.r)
          ELSE IF svc.fn \in ListSwallowing
          THEN svc.kind = "return" /\ svc.value = "[]"
          ELSE IF svc.fn = "getTodaysAttendanceForUser"
          THEN svc.kind = "return" /\ svc.value = "null"
          ELSE svc.kind = "return" /\ svc.value = "{success: false}"
    /\ SdkFailed =>
          /\ svc.kind = "throw"
          /\ svc.msg = IF svc.fn = "generateSpeech" THEN SdkMessage ELSE GenericAiMessage
    /\ face.failed => face.kind = "return" /\ face.isMatch

C8_Witness ==
    /\ HttpFailed /\ svc.fn = "markAttendance" /\ svc.r.status = 409
    /\ svc.kind = "throw" /\ svc.msg = "Attendance already marked for this user today"

\* C9: when submitApplication, submitFeedback, updateApplicationStatus and
\* updateFeedbackStatus overlap, every entry written is in its list exactly once with
\* the status last given to it, and localStorage holds what the Map holds.
C9_NothingLost ==
    LET apps == GetItemList(storage, APPS)
        feedbackList == GetItemList(storage, FEEDBACK)
    IN /\ \A p \in hist.appDone :
             Cardinality({i \in 1..Len(apps) :
                 apps[i].payload = p /\ apps[i].status = hist.appWant[p]}) = 1
       /\ Len(apps) = Cardinality(hist.appDone)
       /\ \A p \in hist.fbDone :
             Cardinality({i \in 1..Len(feedbackList) :
                 feedbackList[i].message = p /\ feedbackList[i].status = hist.fbWant[p]}) = 1
       /\ Len(feedbackList) = Cardinality(hist.fbDone)
       /\ storage.local = storage.store

\* the call handed payload 1 wrote after the call handed payload 2 did, and a status
\* was changed while a submitApplication was waiting for the users
C9_Witness ==
    LET apps == GetItemList(storage, APPS)
    IN /\ hist.during
       /\ Len(apps) = 2 /\ apps[1].payload = 1 /\ apps[2].payload = 2
       /\ apps[2].status = "APPROVED"
       /\ \A c \in Clients : job[c].pc = "idle"

\* C10: a generateVideo call that has sent its request eventually returns or throws.
C10_VideoTerminates ==
    (video.pc = "starting") ~> (video.pc \in {"returned", "thrown"})

\* the handler of api/attendance.ts answers client c's complete POST while a record
\* with the body's date and userPin is in the store
C11_AnswersDuplicate(c) ==
    /\ attApi = "api_attendance"
    /\ cl[c].pc = "posted" /\ cl'[c] # cl[c]
    /\ Truthy(cl[c].body.date) /\ cl[c].body.userId # 0 /\ Truthy(cl[c].body.userName)
    /\ Truthy(cl[c].body.userPin) /\ Truthy(cl[c].body.status)
    /\ \E i \in 1..Len(att) :
          att[i].date = cl[c].body.date /\ att[i].userPin = cl[c].body.userPin

\* C11: a POST for a (date, userPin) that already has a record is answered 409
\* 'Attendance already marked for this user today' and the attendance store is the
\* same after the answer as before it.
C11_DuplicatePostRejected ==
    [][\A c \in Clients :
          C11_AnswersDuplicate(c) =>
             /\ cl'[c].pc = "done" /\ cl'[c].status = 409
             /\ cl'[c].err = "Attendance already marked for this user today"
             /\ att' = att /\ attNext' = attNext]_vars

C11_Witness ==
    \E c \in Clients :
       /\ attApi = "api_attendance" /\ cl[c].pc = "done" /\ cl[c].op = "raw"
       /\ cl[c].status = 409 /\ Len(att) = 1

\* a step that is a verifyLoginOtp call, and whether the OTP it presents is the one the
\* latest sendLoginOtp issued for the user and was not presented before
C12_Verifies == otpLog'.calls # otpLog.calls
C12_Valid ==
    /\ Truthy(otpRes'.otp)
    /\ otpLog.latest[otpRes'.uid] = otpRes'.otp
    /\ ~otpLog.spent[otpRes'.uid]

\* C12 as claimed: verifyLoginOtp returns a user only for the latest OTP not yet used,
\* and every verification that does not return a user leaves the stored OTP unchanged.
C12_OtpSingleUse ==
    [][C12_Verifies =>
          /\ otpRes'.kind = "user" => C12_Valid
          /\ otpRes'.kind # "user" => otpStore' = otpStore]_vars

\* C12 as amended: a user is returned only for the latest OTP not yet presented; a call
\* that presents it clears the stored OTP whether or not a user comes back; any other
\* call returns null and leaves every stored OTP unchanged.
C12_OtpConsumedOnMatch ==
    [][C12_Verifies =>
          /\ otpRes'.kind = "user" => C12_Valid /\ otpRes'.docs[1].id = otpRes'.uid
          /\ C12_Valid =>
                /\ GetItem(otpStore'[otpRes'.uid]) = JsNull
                /\ \A u \in UserIds \ {otpRes'.uid} : otpStore'[u] = otpStore[u]
          /\ ~C12_Valid => otpRes'.kind = "null" /\ otpStore' = otpStore]_vars

\* the latest OTP was presented, no user came back, and the OTP is gone
C12_Witness ==
    /\ otpRes.kind \in {"null", "throw"}
    /\ Truthy(otpRes.otp) /\ otpRes.stored = Stringify(JsStr(otpRes.otp))
    /\ otpLog.spent[otpRes.uid] /\ otpLog.latest[otpRes.uid] = otpRes.otp
    /\ GetItem(otpStore[otpRes.uid]) = JsNull

\* C13: login returns null on a 401, throws on any other response that is not 2xx,
\* and never returns a user, directly or inside an OTP challenge, whose
\* access_revoked is true.
C13_NoRevokedLogin ==
    /\ loginRes.status = 401 => loginRes.kind = "null"
    /\ (loginRes.status >= 300 /\ loginRes.status # 401) => loginRes.kind = "throw"
    /\ loginRes.kind \in {"user", "otp"} =>
          \A i \in 1..Len(loginRes.docs) : ~loginRes.docs[i].access_revoked

\* the current user of the latest read is held to one college
C14_Restricted ==
    rd.currentUser.role # SUPER_ADMIN /\ rd.currentUser.college_code # ""
\* the user collection and the attendance collection without what belongs to other colleges
C14_OwnUsers == SelectSeq(users, LAMBDA u : u.college_code = rd.currentUser.college_code)
C14_OwnAtt ==
    SelectSeq(att, LAMBDA r : \E i \in 1..Len(C14_OwnUsers) : C14_OwnUsers[i].id = r.userId)
\* what the backend answers to the latest read's request on collections us, as
C14_Answer(us, as) ==
    IF rd.fn = "getUsers" THEN us
    ELSE IF rd.fn = "getAttendanceForDate" THEN AttGetByDate(attApi, as, rd.from)
    ELSE AttGetByRange(attApi, as, rd.from, rd.to)

\* C14: a read for a user who is not SUPER_ADMIN and has a college_code returns only
\* records of users of that college, and returns the same on the collections with every
\* other college's records taken out; a read for a SUPER_ADMIN returns every record of
\* the answer.
C14_TenantFiltering ==
    (rd.fn # "" /\ rd.ok) =>
       IF C14_Restricted
       THEN /\ \A k \in 1..Len(rd.result) :
                  \E i \in 1..Len(users) :
                     /\ users[i].college_code = rd.currentUser.college_code
                     /\ users[i].id = IF rd.fn = "getUsers" THEN rd.result[k].id
                                      ELSE rd.result[k].userId
            /\ rd.result = C14_Answer(C14_OwnUsers, C14_OwnAtt)
       ELSE rd.currentUser.role = SUPER_ADMIN => rd.result = C14_Answer(users, att)

\* a faculty user's read of a date on which another college has a record too
C14_Witness ==
    /\ C14_Restricted /\ rd.ok /\ rd.fn = "getAttendanceForDate"
    /\ Len(rd.result) = 1 /\ Len(AttGetByDate(attApi, att, rd.from)) = 2

\* the id of the latest call is one that getUsers returns to its current user
C15_Visible ==
    \E i \in 1..Len(GetUsers(adm.before, adm.currentUser)) :
       GetUsers(adm.before, adm.currentUser)[i].id = adm.id

\* C15: deleteUser without forceHardDelete on a visible user flips that user's
\* access_revoked, changes no other user and returns {success: true}; with
\* forceHardDelete, or for an id that is not visible, it returns {success: false} and
\* the stored users are what they were.
C15_SoftDeleteToggles ==
    (adm.fn = "deleteUser" /\ adm.pc = "done") =>
       IF ~adm.force /\ C15_Visible
       THEN /\ adm.kind = "return" /\ adm.value = "{success: true}"
            /\ users = [i \in 1..Len(adm.before) |->
                          IF adm.before[i].id = adm.id
                          THEN [adm.before[i] EXCEPT !.access_revoked = ~@]
                          ELSE adm.before[i]]
       ELSE /\ adm.kind = "return" /\ adm.value = "{success: false}"
            /\ users = adm.before

\* C16: updateUser for an id that getUsers returned ends with the stored user of that
\* id updated with userData and with that updated record as its result.
C16_UpdateUserUpdates ==
    (adm.fn = "updateUser" /\ adm.pc = "done" /\ C15_Visible) =>
       /\ adm.kind = "return"
       /\ \E i \in 1..Len(adm.before) :
             /\ adm.before[i].id = adm.id
             /\ users = [adm.before EXCEPT ![i] = UserUpdate(adm.before[i], adm.body)]
             /\ adm.docs = <<users[i]>>

\* the students getUsers shows to the user the latest dashboard was computed for
C17_Students ==
    Len(SelectSeq(GetUsers(users, dash.currentUser), LAMBDA u : u.role = STUDENT))

C18_OwnRecordOfToday ==
    tod.kind = "return" =>
       \A k \in 1..Len(tod.records) :
          tod.records[k].userId = tod.userId /\ tod.records[k].date = tod.today

\* the k-th call's request settles in this step
C19_Settles(k) == k \in 1..Len(calls) /\ calls[k].pc = "pending" /\ calls'[k].pc = "settled"

\* C19: a settled request changes no message of chatHistory other than the loading
\* placeholder its own handleSubmit call created: no user message, no other placeholder.
C19_SettleUpdatesOwnPlaceholder ==
    [][\A k \in 1..MaxSubmits :
          C19_Settles(k) =>
             \A i \in 1..Len(chatHistory) :
                chatHistory'[i] # chatHistory[i] =>
                   chatHistory[i].call = k /\ chatHistory[i].role = "model"]_vars

\* the k-th call's request settles in this step, in the run of handleSubmit itself or later
C20_Settles(k) ==
    /\ k \in 1..Len(calls') /\ calls'[k].pc = "settled"
    /\ k \in 1..Len(calls) => calls[k].pc = "pending"
\* user message, then its model message, call after call
C20_InSubmissionOrder ==
    /\ \A i \in 1..Len(chatHistory) :
          /\ chatHistory[i].role = IF i % 2 = 1 THEN "user" ELSE "model"
          /\ i % 2 = 1 => /\ i + 1 <= Len(chatHistory)
                          /\ chatHistory[i + 1].call = chatHistory[i].call
    /\ \A i, j \in 1..Len(chatHistory) : i < j => chatHistory[i].call <= chatHistory[j].call

\* C20: when a call settles, its loading placeholder, if still in chatHistory, holds that
\* call's result or error and has isLoading = false; when no call is outstanding no
\* message has isLoading = true; and chatHistory is always in submission order, each
\* user message immediately followed by its model message.
C20_PlaceholdersResolved ==
    /\ [][\A k \in 1..MaxSubmits :
             C20_Settles(k) =>
                \A i \in 1..Len(chatHistory') :
                   (chatHistory'[i].call = k /\ chatHistory'[i].role = "model") =>
                      /\ ~chatHistory'[i].isLoading
                      /\ chatHistory'[i].content \in {Settled(k, TRUE), Settled(k, FALSE)}]_vars
    /\ []((\A k \in 1..Len(calls) : calls[k].pc = "settled") =>
             \A i \in 1..Len(chatHistory) : ~chatHistory[i].isLoading)
    /\ []C20_InSubmissionOrder

\* the second call's response arrives while the first is still awaited
C20_Witness ==
    /\ Len(calls) = 2 /\ calls[1].pc = "pending" /\ calls[2].pc = "settled"
    /\ Len(chatHistory) = 4
    /\ chatHistory[2].isLoading /\ ~chatHistory[4].isLoading
    /\ chatHistory[4].content = Settled(2, TRUE)

\* C21: a switch to another tool leaves chatHistory, the input text and the file empty,
\* and a response to a request whose messages a switch has cleared adds no message to
\* chatHistory and changes none of its messages.
C21_SwitchClearsChat ==
    /\ [][(Truthy(currentToolId') /\ currentToolId' # currentToolId) =>
             (chatHistory' = <<>> /\ inputText' = "" /\ ~file')]_vars
    /\ [][\A k \in 1..MaxSubmits :
             (C19_Settles(k) /\ calls[k].cleared) => chatHistory' = chatHistory]_vars

\* a markAttendance call of client c whose POST is on the wire
C22_Sent(c) == cl[c].op = "mark" /\ cl[c].pc = "posted"

\* C22: the location status markAttendance sends is 'On-Campus' exactly when
\* coordinates were supplied and the computed distance to the campus is at most
\* CAMPUS_RADIUS_KM, a distance equal to the radius included; without coordinates it is
\* 'Off-Campus' with no coordinates string and no distance; and a call for a userId that
\* matches no user throws 'User not found' and sends no POST.
C22_LocationStatus ==
    /\ [](\A c \in Clients :
             C22_Sent(c) =>
                /\ cl[c].body.location.status \in {"On-Campus", "Off-Campus"}
                /\ cl[c].body.location.status = "On-Campus" <=>
                      /\ cl[c].coords # <<>>
                      /\ getDistanceInKm(cl[c].coords[1], cl[c].coords[2], CAMPUS_LAT,
                                         CAMPUS_LON) <= CAMPUS_RADIUS_KM
                /\ cl[c].coords = <<>> =>
                      /\ cl[c].body.location.coordinates = <<>>
                      /\ cl[c].body.location.distance_km = <<>>)
    /\ [](fence.status # "" =>
             (fence.status = "On-Campus" <=>
                 (fence.hasCoordinates /\ fence.distanceInKm <= CAMPUS_RADIUS_KM)))
    /\ [][\A c \in Clients, u \in UserIds, xy \in Coords \cup {<<>>}, d \in Dates :
             ((\A i \in 1..Len(users) : users[i].id # u) /\ MarkAttendance(c, u, xy, d, TRUE))
                => /\ cl'[c].pc = "done" /\ cl'[c].err = "User not found"
                   /\ att' = att]_vars

\* a check-in from 499 m is on the wire as On-Campus, and a position on the circle
\* itself has been judged On-Campus
C22_Witness ==
    /\ C22_Sent(1) /\ cl[1].coords # <<>> /\ cl[1].body.location.status = "On-Campus"
    /\ fence.hasCoordinates /\ fence.distanceInKm = CAMPUS_RADIUS_KM
    /\ fence.status = "On-Campus"
====
